---- MODULE Spec2Model ----
(***************************************************************************)
(* Model of the thread-safe singly-linked list of pkg/data/list.go and of  *)
(* the concurrency test that drives it.  Nodes live in a heap indexed by   *)
(* node identifiers; every goroutine has a program position (pc) that      *)
(* names the source line it is about to execute.                           *)
(***************************************************************************)
EXTENDS Integers, Sequences, FiniteSets, TLC

\* ------------------------------------------------------------------ bounds
NumThreads == 2      \* goroutines that call the list
MaxNodes   == 3      \* nodes the heap holds
MaxVal     == 1      \* values stored by callers are 0..MaxVal
MaxVisits  == 2      \* calls of the ForEach visitor that are recorded
Iterations == 2      \* iterations of the loop of the concurrency test

\* --------------------------------------------------------------- constants
Sentinel == 777      \* the element the concurrency test starts from
Nil      == 0        \* the nil pointer
ZeroT    == 0        \* zero value of the element type (var value T)

Main     == 0
Workers  == 1..NumThreads
Threads  == {Main} \cup Workers
NodeIds  == 1..MaxNodes
Values   == 0..MaxVal

VARIABLES
  head,      \* List.head
  tail,      \* List.tail
  length,    \* List.length
  heap,      \* node id -> [value, next]: the ListNode records
  mux,       \* List.mux: [w |-> a writer holds it, r |-> number of readers]
  pc,        \* position of every goroutine
  op,        \* the call a goroutine is executing: [name, h (receiver), value]
  locals,    \* local variables of the call
  ret,       \* the value the call is returning
  pre,       \* the chain and its values when the call acquired the lock
  visited,   \* values the ForEach visitor has been called with
  crashed,   \* a goroutine panicked: the process is gone
  iter,      \* loop counter j of a worker of the test
  phase,     \* which of the four calls of the loop body comes next
  mainpc,    \* position of the test's main goroutine
  failed     \* the test has called t.Error

vars == <<head, tail, length, heap, mux, pc, op, locals, ret, pre, visited,
          crashed, iter, phase, mainpc, failed>>

listVars == <<head, tail, length, heap>>
testVars == <<iter, phase, mainpc, failed>>

\* ----------------------------------------------------------------- helpers
Range(s) == {s[i] : i \in 1..Len(s)}

Blank == [value |-> ZeroT, next |-> Nil]

NoLocals == [listNode |-> Nil, parent |-> Nil, found |-> Nil,
             currentNode |-> Nil, value |-> ZeroT]

NoOp == [name |-> "none", h |-> "list", value |-> ZeroT]

NoPre == [nodes |-> <<>>, vals |-> <<>>, head |-> Nil, tail |-> Nil,
          length |-> 0]

NoRet == [has |-> FALSE, err |-> "", ok |-> FALSE, value |-> ZeroT,
          node |-> Nil, str |-> <<>>]

\* The chain of nodes met by following next-links from n in heap hp, up to
\* nil or to the first node met a second time.
RECURSIVE ChainFrom(_, _, _)
ChainFrom(hp, n, acc) ==
  IF n = Nil \/ n \in Range(acc) THEN acc
  ELSE ChainFrom(hp, hp[n].next, Append(acc, n))

Chain(hp, h) == ChainFrom(hp, h, <<>>)

\* The walk from h runs into a node it has already visited.
Cyclic(hp, h) ==
  LET c == Chain(hp, h)
  IN  c # <<>> /\ hp[c[Len(c)]].next # Nil

ValuesOf(hp, c) == [i \in 1..Len(c) |-> hp[c[i]].value]

Traversal == ValuesOf(heap, Chain(heap, head))

\* The list as a call finds it when it has acquired the lock.
Snapshot == [nodes |-> Chain(heap, head), vals |-> Traversal, head |-> head,
             tail |-> tail, length |-> length]

\* Nodes the garbage collector must keep: reachable from the list or from a
\* local variable of a running call.
Roots ==
  {head, tail} \cup {locals[t].listNode : t \in Threads}
               \cup {locals[t].parent : t \in Threads}
               \cup {locals[t].found : t \in Threads}
               \cup {locals[t].currentNode : t \in Threads}

LiveFrom(hp, roots) ==
  UNION {Range(Chain(hp, r)) : r \in roots}

Live == LiveFrom(heap, Roots)

Min(S) == CHOOSE x \in S : \A y \in S : x <= y

\* &ListNode[T]{...}: the node the allocator hands out.
NewNode == Min(NodeIds \ Live)

Goto(t, l) == pc' = [pc EXCEPT ![t] = l]

SetLocal(t, f, v) == locals' = [locals EXCEPT ![t][f] = v]

\* ---------------------------------------------------------------- NewList
InitList ==
  /\ head = Nil
  /\ tail = Nil
  /\ length = 0
  /\ heap = [n \in NodeIds |-> Blank]
  /\ mux = [w |-> FALSE, r |-> 0]
  /\ pc = [t \in Threads |-> "idle"]
  /\ op = [t \in Threads |-> NoOp]
  /\ locals = [t \in Threads |-> NoLocals]
  /\ ret = [t \in Threads |-> NoRet]
  /\ pre = [t \in Threads |-> NoPre]
  /\ visited = [t \in Threads |-> <<>>]
  /\ crashed = FALSE
  /\ iter = [t \in Workers |-> 0]
  /\ phase = [t \in Workers |-> 0]
  /\ failed = FALSE

\* A program that uses the list: no test is running.
Init == InitList /\ mainpc = "idle"

\* ------------------------------------------------------- program positions
WriteEntry == {"Insert_75", "Append_91", "Delete_138", "DeleteHead_159",
               "DeleteTail_176"}
ReadEntry  == {"Find_128", "ForEach_204", "String_214"}

WriteRet == {"Insert_86", "Append_105", "Delete_ret", "DeleteHead_ret",
             "DeleteTail_ret"}
ReadRet  == {"Find_133", "ForEach_210", "String_230"}

\* Positions between Lock() and the deferred Unlock().
WriteCS ==
  {"Insert_80", "Insert_81", "Insert_84", "Insert_85", "Insert_86",
   "Append_96", "Append_97", "Append_99", "Append_102", "Append_104",
   "Append_105",
   "Delete_140", "Delete_141", "Delete_144", "Delete_147", "Delete_150",
   "Delete_153", "Delete_ret",
   "DeleteHead_162", "DeleteHead_165", "DeleteHead_166", "DeleteHead_167",
   "DeleteHead_170", "DeleteHead_ret",
   "DeleteTail_179", "DeleteTail_186", "DeleteTail_191", "DeleteTail_193",
   "DeleteTail_196", "DeleteTail_198", "DeleteTail_ret"}

\* Positions between RLock() and the deferred RUnlock().
ReadCS ==
  {"Find_132", "Find_133", "ForEach_206", "ForEach_207", "ForEach_210",
   "String_219", "String_230"}

\* First statement of every operation.
Entry(name) ==
  CASE name = "Insert"     -> "Insert_75"
    [] name = "Append"     -> "Append_91"
    [] name = "Find"       -> "Find_128"
    [] name = "Delete"     -> "Delete_138"
    [] name = "DeleteHead" -> "DeleteHead_159"
    [] name = "DeleteTail" -> "DeleteTail_176"
    [] name = "ForEach"    -> "ForEach_204"
    [] name = "String"     -> "String_214"

\* Statement that follows the acquisition of the lock.
AfterLock(l) ==
  CASE l = "Insert_75"      -> "Insert_80"
    [] l = "Append_91"      -> "Append_96"
    [] l = "Delete_138"     -> "Delete_140"
    [] l = "DeleteHead_159" -> "DeleteHead_162"
    [] l = "DeleteTail_176" -> "DeleteTail_179"
    [] l = "Find_128"       -> "Find_132"
    [] l = "ForEach_204"    -> "ForEach_206"
    [] l = "String_214"     -> "String_219"

LockingOps == {"Insert", "Append", "Find", "Delete", "DeleteHead",
               "DeleteTail", "ForEach", "String"}
TakesValue == {"Insert", "Append", "Find", "Delete"}

\* Calls that are about to allocate a node.
Allocating ==
  {t \in Threads : pc[t] \in {"Insert_75", "Insert_80", "Append_91",
                              "Append_96"}}

\* a lock whose writers do not wait for the readers to leave
Lock_IgnoresReaders(t) ==
  /\ pc[t] \in WriteEntry
  /\ ~mux.w
  /\ mux' = [mux EXCEPT !.w = TRUE]
  /\ pre' = [pre EXCEPT ![t] = Snapshot]
  /\ Goto(t, AfterLock(pc[t]))
  /\ UNCHANGED <<listVars, op, locals, ret, visited, crashed, testVars>>

\* ------------------------------------------------------------ sync.RWMutex
\* mux.Lock(): waits until no reader and no writer holds the lock.
Lock(t) ==
  /\ pc[t] \in WriteEntry
  /\ ~mux.w
  /\ mux.r = 0
  /\ mux' = [mux EXCEPT !.w = TRUE]
  /\ pre' = [pre EXCEPT ![t] = Snapshot]
  /\ Goto(t, AfterLock(pc[t]))
  /\ UNCHANGED <<listVars, op, locals, ret, visited, crashed, testVars>>

\* mux.RLock(): waits until no writer holds the lock.
RLock(t) ==
  /\ pc[t] \in ReadEntry
  /\ ~mux.w
  /\ mux' = [mux EXCEPT !.r = @ + 1]
  /\ pre' = [pre EXCEPT ![t] = Snapshot]
  /\ Goto(t, AfterLock(pc[t]))
  /\ UNCHANGED <<listVars, op, locals, ret, visited, crashed, testVars>>

\* The call returns: its frame is dropped and the nodes nothing refers to
\* any more are reclaimed.
Leave(t) ==
  /\ Goto(t, "idle")
  /\ op' = [op EXCEPT ![t] = NoOp]
  /\ locals' = [locals EXCEPT ![t] = NoLocals]
  /\ ret' = [ret EXCEPT ![t] = NoRet]
  /\ pre' = [pre EXCEPT ![t] = NoPre]
  /\ visited' = [visited EXCEPT ![t] = <<>>]
  /\ LET roots == {head, tail}
                    \cup {locals'[u].listNode : u \in Threads}
                    \cup {locals'[u].parent : u \in Threads}
                    \cup {locals'[u].found : u \in Threads}
                    \cup {locals'[u].currentNode : u \in Threads}
         live  == LiveFrom(heap, roots)
     IN  heap' = [n \in NodeIds |-> IF n \in live THEN heap[n] ELSE Blank]
  /\ UNCHANGED <<head, tail>>

\* Addresses are names: the program compares pointers and never looks at
\* their numbers.  When a writer returns the nodes are renamed so that the
\* chain from head is 1, 2, ... in order; every pointer is renamed with them.
Rename(hp, h) ==
  LET c    == Chain(hp, h)
      rest == NodeIds \ Range(c)
  IN  [n \in NodeIds \cup {Nil} |->
         IF n = Nil THEN Nil
         ELSE IF n \in Range(c) THEN CHOOSE i \in 1..Len(c) : c[i] = n
         ELSE Len(c) + Cardinality({m \in rest : m <= n})]

\* The call of a writer returns: Leave, followed by the renaming.
LeaveWriter(t) ==
  LET roots == {head, tail}
                 \cup {locals[u].listNode : u \in Threads \ {t}}
                 \cup {locals[u].parent : u \in Threads \ {t}}
                 \cup {locals[u].found : u \in Threads \ {t}}
                 \cup {locals[u].currentNode : u \in Threads \ {t}}
      live  == LiveFrom(heap, roots)
      hp    == [n \in NodeIds |-> IF n \in live THEN heap[n] ELSE Blank]
      P     == Rename(hp, head)
      old(k) == CHOOSE n \in NodeIds : P[n] = k
  IN  /\ Goto(t, "idle")
      /\ op' = [op EXCEPT ![t] = NoOp]
      /\ visited' = [visited EXCEPT ![t] = <<>>]
      /\ heap' = [k \in NodeIds |-> [value |-> hp[old(k)].value,
                                     next  |-> P[hp[old(k)].next]]]
      /\ head' = P[head]
      /\ tail' = P[tail]
      /\ locals' = [u \in Threads |->
           IF u = t THEN NoLocals
           ELSE [listNode    |-> P[locals[u].listNode],
                 parent      |-> P[locals[u].parent],
                 found       |-> P[locals[u].found],
                 currentNode |-> P[locals[u].currentNode],
                 value       |-> locals[u].value]]
      /\ ret' = [u \in Threads |->
           IF u = t THEN NoRet ELSE [ret[u] EXCEPT !.node = P[@]]]
      /\ pre' = [u \in Threads |->
           IF u = t THEN NoPre
           ELSE [pre[u] EXCEPT !.nodes = [i \in 1..Len(@) |-> P[@[i]]],
                               !.head = P[@], !.tail = P[@]]]

\* defer list.mux.Unlock()
Unlock(t) ==
  /\ pc[t] \in WriteRet
  /\ mux' = [mux EXCEPT !.w = FALSE]
  /\ LeaveWriter(t)
  /\ UNCHANGED <<length, crashed, testVars>>

\* defer list.mux.RUnlock()
RUnlock(t) ==
  /\ pc[t] \in ReadRet
  /\ mux' = [mux EXCEPT !.r = @ - 1]
  /\ Leave(t)
  /\ UNCHANGED <<length, crashed, testVars>>

\* Insert without the nil test: list.mux dereferences the nil receiver
InsertNil_Panics(t) ==
  /\ pc[t] = "idle"
  /\ mainpc = "idle"
  /\ ~crashed
  /\ op' = [u \in Threads |->
              IF u = t THEN [name |-> "Insert", h |-> "nil", value |-> ZeroT]
              ELSE NoOp]
  /\ crashed' = TRUE
  /\ head' = Nil
  /\ tail' = Nil
  /\ length' = 0
  /\ heap' = [n \in NodeIds |-> Blank]
  /\ mux' = [w |-> FALSE, r |-> 0]
  /\ pc' = [u \in Threads |-> "idle"]
  /\ locals' = [u \in Threads |-> NoLocals]
  /\ ret' = [u \in Threads |-> NoRet]
  /\ pre' = [u \in Threads |-> NoPre]
  /\ visited' = [u \in Threads |-> <<>>]
  /\ UNCHANGED testVars

\* ------------------------------------------------------------------ Insert
\* if list == nil { return errors.New("list is nil") }
InsertNil(t) ==
  /\ pc[t] = "idle"
  /\ mainpc = "idle"
  /\ ~crashed
  /\ \E v \in Values :
       op' = [op EXCEPT ![t] = [name |-> "Insert", h |-> "nil", value |-> v]]
  /\ ret' = [ret EXCEPT ![t] = [NoRet EXCEPT !.has = TRUE,
                                             !.err = "list is nil"]]
  /\ Goto(t, "Insert_76")
  /\ UNCHANGED <<listVars, mux, locals, pre, visited, crashed, testVars>>

\* Insert whose new node does not point to the old head
Insert_80_NoLink(t) ==
  /\ pc[t] = "Insert_80"
  /\ LET n == NewNode
     IN  /\ heap' = [heap EXCEPT ![n] = [value |-> op[t].value, next |-> Nil]]
         /\ SetLocal(t, "listNode", n)
  /\ Goto(t, "Insert_81")
  /\ UNCHANGED <<head, tail, length, mux, op, ret, pre, visited, crashed,
                 testVars>>

\* listNode := &ListNode[T]{value, list.head}
Insert_80(t) ==
  /\ pc[t] = "Insert_80"
  /\ LET n == NewNode
     IN  /\ heap' = [heap EXCEPT ![n] = [value |-> op[t].value, next |-> head]]
         /\ SetLocal(t, "listNode", n)
  /\ Goto(t, "Insert_81")
  /\ UNCHANGED <<head, tail, length, mux, op, ret, pre, visited, crashed,
                 testVars>>

\* if list.tail == nil { list.tail = listNode }
Insert_81(t) ==
  /\ pc[t] = "Insert_81"
  /\ tail' = IF tail = Nil THEN locals[t].listNode ELSE tail
  /\ Goto(t, "Insert_84")
  /\ UNCHANGED <<head, length, heap, mux, op, locals, ret, pre, visited,
                 crashed, testVars>>

\* list.head = listNode
Insert_84(t) ==
  /\ pc[t] = "Insert_84"
  /\ head' = locals[t].listNode
  /\ Goto(t, "Insert_85")
  /\ UNCHANGED <<tail, length, heap, mux, op, locals, ret, pre, visited,
                 crashed, testVars>>

\* Insert that forgets list.length++
Insert_85_NoCount(t) ==
  /\ pc[t] = "Insert_85"
  /\ length' = length
  /\ ret' = [ret EXCEPT ![t] = [NoRet EXCEPT !.has = TRUE]]
  /\ Goto(t, "Insert_86")
  /\ UNCHANGED <<head, tail, heap, mux, op, locals, pre, visited, crashed,
                 testVars>>

\* list.length++ ; return nil
Insert_85(t) ==
  /\ pc[t] = "Insert_85"
  /\ length' = length + 1
  /\ ret' = [ret EXCEPT ![t] = [NoRet EXCEPT !.has = TRUE]]
  /\ Goto(t, "Insert_86")
  /\ UNCHANGED <<head, tail, heap, mux, op, locals, pre, visited, crashed,
                 testVars>>

\* ------------------------------------------------------------------ Append
\* if list == nil { return errors.New("list is nil") }
AppendNil(t) ==
  /\ pc[t] = "idle"
  /\ mainpc = "idle"
  /\ ~crashed
  /\ \E v \in Values :
       op' = [op EXCEPT ![t] = [name |-> "Append", h |-> "nil", value |-> v]]
  /\ ret' = [ret EXCEPT ![t] = [NoRet EXCEPT !.has = TRUE,
                                             !.err = "list is nil"]]
  /\ Goto(t, "Append_92")
  /\ UNCHANGED <<listVars, mux, locals, pre, visited, crashed, testVars>>

\* listNode := &ListNode[T]{value, nil}
Append_96(t) ==
  /\ pc[t] = "Append_96"
  /\ LET n == NewNode
     IN  /\ heap' = [heap EXCEPT ![n] = [value |-> op[t].value, next |-> Nil]]
         /\ SetLocal(t, "listNode", n)
  /\ Goto(t, "Append_97")
  /\ UNCHANGED <<head, tail, length, mux, op, ret, pre, visited, crashed,
                 testVars>>

\* if list.tail == nil { list.tail = listNode ... } else
\*   { list.tail.next = listNode ... }
Append_97(t) ==
  /\ pc[t] = "Append_97"
  /\ IF tail = Nil
       THEN /\ tail' = locals[t].listNode
            /\ heap' = heap
            /\ Goto(t, "Append_99")
       ELSE /\ heap' = [heap EXCEPT ![tail].next = locals[t].listNode]
            /\ tail' = tail
            /\ Goto(t, "Append_102")
  /\ UNCHANGED <<head, length, mux, op, locals, ret, pre, visited, crashed,
                 testVars>>

\* list.head = listNode   (the list was empty)
Append_99(t) ==
  /\ pc[t] = "Append_99"
  /\ head' = locals[t].listNode
  /\ Goto(t, "Append_104")
  /\ UNCHANGED <<tail, length, heap, mux, op, locals, ret, pre, visited,
                 crashed, testVars>>

\* Append that forgets list.tail = listNode
Append_102_KeepTail(t) ==
  /\ pc[t] = "Append_102"
  /\ tail' = tail
  /\ Goto(t, "Append_104")
  /\ UNCHANGED <<head, length, heap, mux, op, locals, ret, pre, visited,
                 crashed, testVars>>

\* list.tail = listNode   (the list was not empty)
Append_102(t) ==
  /\ pc[t] = "Append_102"
  /\ tail' = locals[t].listNode
  /\ Goto(t, "Append_104")
  /\ UNCHANGED <<head, length, heap, mux, op, locals, ret, pre, visited,
                 crashed, testVars>>

\* list.length++ ; return nil
Append_104(t) ==
  /\ pc[t] = "Append_104"
  /\ length' = length + 1
  /\ ret' = [ret EXCEPT ![t] = [NoRet EXCEPT !.has = TRUE]]
  /\ Goto(t, "Append_105")
  /\ UNCHANGED <<head, tail, heap, mux, op, locals, pre, visited, crashed,
                 testVars>>

\* -------------------------------------------------------------- findParent
\* for currentNode != nil { if currentNode.value == value { return ... } ... }
RECURSIVE findParentLoop(_, _, _, _)
findParentLoop(hp, lastNode, currentNode, value) ==
  IF currentNode = Nil THEN <<Nil, Nil>>
  ELSE IF hp[currentNode].value = value THEN <<lastNode, currentNode>>
  ELSE findParentLoop(hp, currentNode, hp[currentNode].next, value)

\* a scan that keeps going after a match and returns the last one
RECURSIVE findLastLoop(_, _, _, _, _)
findLastLoop(hp, lastNode, currentNode, value, best) ==
  IF currentNode = Nil THEN best
  ELSE findLastLoop(hp, currentNode, hp[currentNode].next, value,
                    IF hp[currentNode].value = value
                      THEN <<lastNode, currentNode>> ELSE best)

findParent_LastMatch(value) ==
  findLastLoop(heap, Nil, head, value, <<Nil, Nil>>)

\* findParent(value) on a list that is not nil: <<parent, found>>.
findParent(value) == findParentLoop(heap, Nil, head, value)

\* Find that returns the first result of findParent, the parent
Find_132_ReturnsParent(t) ==
  /\ pc[t] = "Find_132"
  /\ ret' = [ret EXCEPT ![t] = [NoRet EXCEPT !.has = TRUE,
                                  !.node = findParent(op[t].value)[1]]]
  /\ Goto(t, "Find_133")
  /\ UNCHANGED <<listVars, mux, op, locals, pre, visited, crashed, testVars>>

\* -------------------------------------------------------------------- Find
\* _, found := list.findParent(value) ; return found
Find_132(t) ==
  /\ pc[t] = "Find_132"
  /\ ret' = [ret EXCEPT ![t] = [NoRet EXCEPT !.has = TRUE,
                                  !.node = findParent(op[t].value)[2]]]
  /\ Goto(t, "Find_133")
  /\ UNCHANGED <<listVars, mux, op, locals, pre, visited, crashed, testVars>>

\* ------------------------------------------------------------------ Delete
\* parent, found := list.findParent(value)
Delete_140(t) ==
  /\ pc[t] = "Delete_140"
  /\ LET pf == findParent(op[t].value)
     IN  locals' = [locals EXCEPT ![t].parent = pf[1], ![t].found = pf[2]]
  /\ Goto(t, "Delete_141")
  /\ UNCHANGED <<listVars, mux, op, ret, pre, visited, crashed, testVars>>

\* Delete that reports success when nothing was found
Delete_141_ReturnsTrue(t) ==
  /\ pc[t] = "Delete_141"
  /\ IF locals[t].found = Nil
       THEN /\ ret' = [ret EXCEPT ![t] = [NoRet EXCEPT !.has = TRUE,
                                                       !.ok = TRUE]]
            /\ Goto(t, "Delete_ret")
       ELSE /\ ret' = ret
            /\ Goto(t, "Delete_144")
  /\ UNCHANGED <<listVars, mux, op, locals, pre, visited, crashed, testVars>>

\* if found == nil { return false }
Delete_141(t) ==
  /\ pc[t] = "Delete_141"
  /\ IF locals[t].found = Nil
       THEN /\ ret' = [ret EXCEPT ![t] = [NoRet EXCEPT !.has = TRUE,
                                                       !.ok = FALSE]]
            /\ Goto(t, "Delete_ret")
       ELSE /\ ret' = ret
            /\ Goto(t, "Delete_144")
  /\ UNCHANGED <<listVars, mux, op, locals, pre, visited, crashed, testVars>>

\* if parent != nil { parent.next = found.next }
Delete_144(t) ==
  /\ pc[t] = "Delete_144"
  /\ heap' = IF locals[t].parent # Nil
               THEN [heap EXCEPT ![locals[t].parent].next =
                                    heap[locals[t].found].next]
               ELSE heap
  /\ Goto(t, "Delete_147")
  /\ UNCHANGED <<head, tail, length, mux, op, locals, ret, pre, visited,
                 crashed, testVars>>

\* Delete that forgets to move head when it removes the first node
Delete_147_KeepHead(t) ==
  /\ pc[t] = "Delete_147"
  /\ head' = head
  /\ Goto(t, "Delete_150")
  /\ UNCHANGED <<tail, length, heap, mux, op, locals, ret, pre, visited,
                 crashed, testVars>>

\* if list.head == found { list.head = found.next }
Delete_147(t) ==
  /\ pc[t] = "Delete_147"
  /\ head' = IF head = locals[t].found THEN heap[locals[t].found].next
             ELSE head
  /\ Goto(t, "Delete_150")
  /\ UNCHANGED <<tail, length, heap, mux, op, locals, ret, pre, visited,
                 crashed, testVars>>

\* Delete that forgets to move tail when it removes the last node
Delete_150_KeepTail(t) ==
  /\ pc[t] = "Delete_150"
  /\ tail' = tail
  /\ Goto(t, "Delete_153")
  /\ UNCHANGED <<head, length, heap, mux, op, locals, ret, pre, visited,
                 crashed, testVars>>

\* if list.tail == found { list.tail = parent }
Delete_150(t) ==
  /\ pc[t] = "Delete_150"
  /\ tail' = IF tail = locals[t].found THEN locals[t].parent ELSE tail
  /\ Goto(t, "Delete_153")
  /\ UNCHANGED <<head, length, heap, mux, op, locals, ret, pre, visited,
                 crashed, testVars>>

\* list.length-- ; return true
Delete_153(t) ==
  /\ pc[t] = "Delete_153"
  /\ length' = length - 1
  /\ ret' = [ret EXCEPT ![t] = [NoRet EXCEPT !.has = TRUE, !.ok = TRUE]]
  /\ Goto(t, "Delete_ret")
  /\ UNCHANGED <<head, tail, heap, mux, op, locals, pre, visited, crashed,
                 testVars>>

\* -------------------------------------------------------------- DeleteHead
\* var value T ; if list.head == nil { return value, false }
DeleteHead_162(t) ==
  /\ pc[t] = "DeleteHead_162"
  /\ IF head = Nil
       THEN /\ ret' = [ret EXCEPT ![t] = [NoRet EXCEPT !.has = TRUE,
                                            !.value = ZeroT, !.ok = FALSE]]
            /\ Goto(t, "DeleteHead_ret")
       ELSE /\ ret' = ret
            /\ Goto(t, "DeleteHead_165")
  /\ UNCHANGED <<listVars, mux, op, locals, pre, visited, crashed, testVars>>

\* value = list.head.value
DeleteHead_165(t) ==
  /\ pc[t] = "DeleteHead_165"
  /\ SetLocal(t, "value", heap[head].value)
  /\ Goto(t, "DeleteHead_166")
  /\ UNCHANGED <<listVars, mux, op, ret, pre, visited, crashed, testVars>>

\* DeleteHead that forgets list.head = list.head.next
DeleteHead_166_NoAdvance(t) ==
  /\ pc[t] = "DeleteHead_166"
  /\ head' = head
  /\ Goto(t, "DeleteHead_167")
  /\ UNCHANGED <<tail, length, heap, mux, op, locals, ret, pre, visited,
                 crashed, testVars>>

\* list.head = list.head.next
DeleteHead_166(t) ==
  /\ pc[t] = "DeleteHead_166"
  /\ head' = heap[head].next
  /\ Goto(t, "DeleteHead_167")
  /\ UNCHANGED <<tail, length, heap, mux, op, locals, ret, pre, visited,
                 crashed, testVars>>

\* DeleteHead that leaves tail alone when the list becomes empty
DeleteHead_167_KeepTail(t) ==
  /\ pc[t] = "DeleteHead_167"
  /\ tail' = tail
  /\ Goto(t, "DeleteHead_170")
  /\ UNCHANGED <<head, length, heap, mux, op, locals, ret, pre, visited,
                 crashed, testVars>>

\* if list.head == nil { list.tail = nil }
DeleteHead_167(t) ==
  /\ pc[t] = "DeleteHead_167"
  /\ tail' = IF head = Nil THEN Nil ELSE tail
  /\ Goto(t, "DeleteHead_170")
  /\ UNCHANGED <<head, length, heap, mux, op, locals, ret, pre, visited,
                 crashed, testVars>>

\* list.length-- ; return value, true
DeleteHead_170(t) ==
  /\ pc[t] = "DeleteHead_170"
  /\ length' = length - 1
  /\ ret' = [ret EXCEPT ![t] = [NoRet EXCEPT !.has = TRUE,
                                  !.value = locals[t].value, !.ok = TRUE]]
  /\ Goto(t, "DeleteHead_ret")
  /\ UNCHANGED <<head, tail, heap, mux, op, locals, pre, visited, crashed,
                 testVars>>

\* -------------------------------------------------------------- DeleteTail
\* for node := list.head; node != nil; node = node.next {
\*   if node.next == list.tail { parent = node } }
RECURSIVE tailParentLoop(_, _, _, _)
tailParentLoop(hp, node, tl, parent) ==
  IF node = Nil THEN parent
  ELSE tailParentLoop(hp, hp[node].next, tl,
                      IF hp[node].next = tl THEN node ELSE parent)

\* DeleteTail that does not return when the list is empty
DeleteTail_179_NoReturn(t) ==
  /\ pc[t] = "DeleteTail_179"
  /\ SetLocal(t, "value", IF tail = Nil THEN ZeroT ELSE heap[tail].value)
  /\ Goto(t, "DeleteTail_186")
  /\ UNCHANGED <<listVars, mux, op, ret, pre, visited, crashed, testVars>>

\* if list.tail == nil { return value, false } else { value = list.tail.value }
DeleteTail_179(t) ==
  /\ pc[t] = "DeleteTail_179"
  /\ IF tail = Nil
       THEN /\ ret' = [ret EXCEPT ![t] = [NoRet EXCEPT !.has = TRUE,
                                            !.value = ZeroT, !.ok = FALSE]]
            /\ locals' = locals
            /\ Goto(t, "DeleteTail_ret")
       ELSE /\ ret' = ret
            /\ SetLocal(t, "value", heap[tail].value)
            /\ Goto(t, "DeleteTail_186")
  /\ UNCHANGED <<listVars, mux, op, pre, visited, crashed, testVars>>

\* the loop that finds the parent of list.tail
DeleteTail_186(t) ==
  /\ pc[t] = "DeleteTail_186"
  /\ SetLocal(t, "parent", tailParentLoop(heap, head, tail, Nil))
  /\ Goto(t, "DeleteTail_191")
  /\ UNCHANGED <<listVars, mux, op, ret, pre, visited, crashed, testVars>>

\* DeleteTail that forgets parent.next = nil
DeleteTail_191_KeepLink(t) ==
  /\ pc[t] = "DeleteTail_191"
  /\ IF locals[t].parent = Nil
       THEN /\ head' = Nil
            /\ Goto(t, "DeleteTail_193")
       ELSE /\ head' = head
            /\ Goto(t, "DeleteTail_196")
  /\ UNCHANGED <<tail, length, heap, mux, op, locals, ret, pre, visited,
                 crashed, testVars>>

\* if parent == nil { list.head = nil ... } else { parent.next = nil ... }
DeleteTail_191(t) ==
  /\ pc[t] = "DeleteTail_191"
  /\ IF locals[t].parent = Nil
       THEN /\ head' = Nil
            /\ heap' = heap
            /\ Goto(t, "DeleteTail_193")
       ELSE /\ heap' = [heap EXCEPT ![locals[t].parent].next = Nil]
            /\ head' = head
            /\ Goto(t, "DeleteTail_196")
  /\ UNCHANGED <<tail, length, mux, op, locals, ret, pre, visited, crashed,
                 testVars>>

\* DeleteTail that forgets list.tail = nil when it removes the only node
DeleteTail_193_KeepTail(t) ==
  /\ pc[t] = "DeleteTail_193"
  /\ tail' = tail
  /\ Goto(t, "DeleteTail_198")
  /\ UNCHANGED <<head, length, heap, mux, op, locals, ret, pre, visited,
                 crashed, testVars>>

\* list.tail = nil   (no parent)
DeleteTail_193(t) ==
  /\ pc[t] = "DeleteTail_193"
  /\ tail' = Nil
  /\ Goto(t, "DeleteTail_198")
  /\ UNCHANGED <<head, length, heap, mux, op, locals, ret, pre, visited,
                 crashed, testVars>>

\* DeleteTail that forgets list.tail = parent
DeleteTail_196_KeepTail(t) ==
  /\ pc[t] = "DeleteTail_196"
  /\ tail' = tail
  /\ Goto(t, "DeleteTail_198")
  /\ UNCHANGED <<head, length, heap, mux, op, locals, ret, pre, visited,
                 crashed, testVars>>

\* list.tail = parent
DeleteTail_196(t) ==
  /\ pc[t] = "DeleteTail_196"
  /\ tail' = locals[t].parent
  /\ Goto(t, "DeleteTail_198")
  /\ UNCHANGED <<head, length, heap, mux, op, locals, ret, pre, visited,
                 crashed, testVars>>

\* list.length-- ; return value, true
DeleteTail_198(t) ==
  /\ pc[t] = "DeleteTail_198"
  /\ length' = length - 1
  /\ ret' = [ret EXCEPT ![t] = [NoRet EXCEPT !.has = TRUE,
                                  !.value = locals[t].value, !.ok = TRUE]]
  /\ Goto(t, "DeleteTail_ret")
  /\ UNCHANGED <<head, tail, heap, mux, op, locals, pre, visited, crashed,
                 testVars>>

\* ----------------------------------------------------------------- ForEach
\* currentNode := list.head
ForEach_206(t) ==
  /\ pc[t] = "ForEach_206"
  /\ SetLocal(t, "currentNode", head)
  /\ Goto(t, "ForEach_207")
  /\ UNCHANGED <<listVars, mux, op, ret, pre, visited, crashed, testVars>>

\* for currentNode != nil { f(currentNode.value) }
\* The visitor records the value it is called with (the first MaxVisits calls).
ForEach_207(t) ==
  /\ pc[t] = "ForEach_207"
  /\ IF locals[t].currentNode # Nil
       THEN /\ visited' = [visited EXCEPT ![t] =
                 IF Len(@) < MaxVisits
                   THEN Append(@, heap[locals[t].currentNode].value)
                   ELSE @]
            /\ pc' = pc
       ELSE /\ visited' = visited
            /\ Goto(t, "ForEach_210")
  /\ UNCHANGED <<listVars, mux, op, locals, ret, pre, crashed, testVars>>

\* ------------------------------------------------------------------ String
Digit(d) ==
  CASE d = 0 -> "0" [] d = 1 -> "1" [] d = 2 -> "2" [] d = 3 -> "3"
    [] d = 4 -> "4" [] d = 5 -> "5" [] d = 6 -> "6" [] d = 7 -> "7"
    [] d = 8 -> "8" [] d = 9 -> "9"

\* strconv.Itoa of a number that is not negative, as a sequence of characters
RECURSIVE Itoa(_)
Itoa(n) == IF n < 10 THEN <<Digit(n)>>
           ELSE Itoa(n \div 10) \o <<Digit(n % 10)>>

RECURSIVE JoinValues(_)
JoinValues(vs) ==
  IF vs = <<>> THEN <<>>
  ELSE <<" ">> \o Itoa(Head(vs)) \o JoinValues(Tail(vs))

\* fmt.Sprintf("Length: %d, Data:", n) followed by " " + v.String() per value
Render(n, vs) ==
  <<"L", "e", "n", "g", "t", "h", ":", " ">> \o Itoa(n)
    \o <<",", " ", "D", "a", "t", "a", ":">> \o JoinValues(vs)

\* if list == nil { return "" }
StringNil(t) ==
  /\ pc[t] = "idle"
  /\ mainpc = "idle"
  /\ ~crashed
  /\ op' = [op EXCEPT ![t] = [name |-> "String", h |-> "nil",
                               value |-> ZeroT]]
  /\ ret' = [ret EXCEPT ![t] = [NoRet EXCEPT !.has = TRUE, !.str = <<>>]]
  /\ Goto(t, "String_215")
  /\ UNCHANGED <<listVars, mux, locals, pre, visited, crashed, testVars>>

\* the traversal that collects the values, and the formatting
String_219(t) ==
  /\ pc[t] = "String_219"
  /\ ret' = [ret EXCEPT ![t] = [NoRet EXCEPT !.has = TRUE,
                                  !.str = Render(length, Traversal)]]
  /\ Goto(t, "String_230")
  /\ UNCHANGED <<listVars, mux, op, locals, pre, visited, crashed, testVars>>

\* ------------------------------------------------------------------ Length
\* return list.length   (no lock is taken)
Length_37(t) ==
  /\ pc[t] = "idle"
  /\ mainpc = "idle"
  /\ ~crashed
  /\ op' = [op EXCEPT ![t] = [name |-> "Length", h |-> "list",
                               value |-> ZeroT]]
  /\ ret' = [ret EXCEPT ![t] = [NoRet EXCEPT !.has = TRUE, !.value = length]]
  /\ Goto(t, "Length_ret")
  /\ UNCHANGED <<listVars, mux, locals, pre, visited, crashed, testVars>>

\* ----------------------------------------------------- calls and returns
\* Operations that dereference a nil receiver: list.mux, list.length.
PanicsOnNil == {"Find", "Delete", "DeleteHead", "DeleteTail", "ForEach",
                "Length"}

\* nil pointer dereference: the runtime panics and the process exits, and
\* with it the list and every goroutine.  op keeps the call that panicked.
NilPanic(t) ==
  /\ pc[t] = "idle"
  /\ mainpc = "idle"
  /\ ~crashed
  /\ \E name \in PanicsOnNil :
       op' = [u \in Threads |->
                IF u = t THEN [name |-> name, h |-> "nil", value |-> ZeroT]
                ELSE NoOp]
  /\ crashed' = TRUE
  /\ head' = Nil
  /\ tail' = Nil
  /\ length' = 0
  /\ heap' = [n \in NodeIds |-> Blank]
  /\ mux' = [w |-> FALSE, r |-> 0]
  /\ pc' = [u \in Threads |-> "idle"]
  /\ locals' = [u \in Threads |-> NoLocals]
  /\ ret' = [u \in Threads |-> NoRet]
  /\ pre' = [u \in Threads |-> NoPre]
  /\ visited' = [u \in Threads |-> <<>>]
  /\ UNCHANGED testVars

\* return from a call that holds no lock
Return(t) ==
  /\ pc[t] \in {"Insert_76", "Append_92", "String_215", "Length_ret"}
  /\ Leave(t)
  /\ UNCHANGED <<length, mux, crashed, testVars>>

\* The heap holds MaxNodes nodes: an insertion starts only when a node is
\* left for it.
NodeLeft == Cardinality(Live) + Cardinality(Allocating) < MaxNodes

\* A goroutine calls a locking operation of the list through a valid handle.
Call(t) ==
  /\ pc[t] = "idle"
  /\ mainpc = "idle"
  /\ ~crashed
  /\ \E name \in LockingOps, v \in Values :
       /\ name \notin TakesValue => v = ZeroT
       /\ name \in {"Insert", "Append"} => NodeLeft
       /\ op' = [op EXCEPT ![t] = [name |-> name, h |-> "list", value |-> v]]
       /\ Goto(t, Entry(name))
  /\ UNCHANGED <<listVars, mux, locals, ret, pre, visited, crashed, testVars>>

\* -------------------------------------------------------- the general model
\* A goroutine starts a call.
Invoke(t) ==
  \/ Call(t)
  \/ InsertNil(t) \/ AppendNil(t) \/ StringNil(t) \/ NilPanic(t)
  \/ Length_37(t)

\* A goroutine that is inside a call and is not waiting for the lock
\* executes its next statement.
Run(t) ==
  \/ Unlock(t) \/ RUnlock(t) \/ Return(t)
  \/ Insert_80(t) \/ Insert_81(t) \/ Insert_84(t) \/ Insert_85(t)
  \/ Append_96(t) \/ Append_97(t) \/ Append_99(t) \/ Append_102(t)
  \/ Append_104(t)
  \/ Find_132(t)
  \/ Delete_140(t) \/ Delete_141(t) \/ Delete_144(t) \/ Delete_147(t)
  \/ Delete_150(t) \/ Delete_153(t)
  \/ DeleteHead_162(t) \/ DeleteHead_165(t) \/ DeleteHead_166(t)
  \/ DeleteHead_167(t) \/ DeleteHead_170(t)
  \/ DeleteTail_179(t) \/ DeleteTail_186(t) \/ DeleteTail_191(t)
  \/ DeleteTail_193(t) \/ DeleteTail_196(t) \/ DeleteTail_198(t)
  \/ ForEach_206(t) \/ ForEach_207(t)
  \/ String_219(t)

Step(t) == Invoke(t) \/ Lock(t) \/ RLock(t) \/ Run(t)

Next == \E t \in Workers : Step(t)

Spec == Init /\ [][Next]_vars

\* The scheduler runs every goroutine that can run, and the lock is fair: a
\* goroutine that can acquire it again and again does acquire it.
FairSpec ==
  /\ Spec
  /\ \A t \in Workers : WF_vars(Run(t)) /\ SF_vars(Lock(t)) /\ SF_vars(RLock(t))

\* -------------------------------------------------------- Test_Concurrency
\* listAssert(t, list, values) reports no error.
listAssert(values) ==
  LET c    == Chain(heap, head)
      n    == IF Len(c) < Len(values) THEN Len(c) ELSE Len(values)
      currentParentNode == IF n = 0 THEN Nil ELSE c[n]
  IN  /\ length = Len(values)
      /\ \A i \in 1..n : heap[c[i]].value = values[i]
      /\ currentParentNode # Nil => (tail # Nil /\ currentParentNode = tail)

listData == <<Sentinel>>

\* list := NewList[Data]() has run; the test is about to append listData[0].
InitTest == InitList /\ mainpc = "Test_134"

\* list.Append(listData[0])
Test_134 ==
  /\ mainpc = "Test_134"
  /\ pc[Main] = "idle"
  /\ op' = [op EXCEPT ![Main] = [name |-> "Append", h |-> "list",
                                 value |-> listData[1]]]
  /\ Goto(Main, Entry("Append"))
  /\ mainpc' = "Test_136"
  /\ UNCHANGED <<listVars, mux, locals, ret, pre, visited, crashed, iter,
                 phase, failed>>

\* listAssert(t, list, listData), then the loop that starts the goroutines
Test_136 ==
  /\ mainpc = "Test_136"
  /\ pc[Main] = "idle"
  /\ failed' = (failed \/ ~listAssert(listData))
  /\ mainpc' = "Test_153"
  /\ UNCHANGED <<listVars, mux, pc, op, locals, ret, pre, visited, crashed,
                 iter, phase>>

\* The call a worker makes next: Append, Delete, Insert, Delete of Data(j).
LoopBody == <<"Append", "Delete", "Insert", "Delete">>

\* one call of the body of for j := 0; j < iterations; j++ { ... }
Test_145(t) ==
  /\ mainpc = "Test_153"
  /\ pc[t] = "idle"
  /\ iter[t] < Iterations
  /\ LET name == LoopBody[phase[t] + 1]
     IN  /\ name \in {"Insert", "Append"} => NodeLeft
         /\ op' = [op EXCEPT ![t] = [name |-> name, h |-> "list",
                                     value |-> iter[t]]]
         /\ Goto(t, Entry(name))
  /\ phase' = [phase EXCEPT ![t] = (@ + 1) % Len(LoopBody)]
  /\ iter' = [iter EXCEPT ![t] = IF phase[t] + 1 = Len(LoopBody)
                                   THEN @ + 1 ELSE @]
  /\ UNCHANGED <<listVars, mux, locals, ret, pre, visited, crashed, mainpc,
                 failed>>

\* The goroutine has left its loop and called wg.Done().
WorkerDone(t) == iter[t] = Iterations /\ pc[t] = "idle"

\* wg.Wait() returns
Test_153 ==
  /\ mainpc = "Test_153"
  /\ \A t \in Workers : WorkerDone(t)
  /\ mainpc' = "Test_155"
  /\ UNCHANGED <<listVars, mux, pc, op, locals, ret, pre, visited, crashed,
                 iter, phase, failed>>

\* listAssert(t, list, listData)
Test_155 ==
  /\ mainpc = "Test_155"
  /\ failed' = (failed \/ ~listAssert(listData))
  /\ mainpc' = "Test_done"
  /\ UNCHANGED <<listVars, mux, pc, op, locals, ret, pre, visited, crashed,
                 iter, phase>>

\* The statements of the list the test reaches.
TestStep(t) ==
  \/ Lock(t) \/ Unlock(t)
  \/ Insert_80(t) \/ Insert_81(t) \/ Insert_84(t) \/ Insert_85(t)
  \/ Append_96(t) \/ Append_97(t) \/ Append_99(t) \/ Append_102(t)
  \/ Append_104(t)
  \/ Delete_140(t) \/ Delete_141(t) \/ Delete_144(t) \/ Delete_147(t)
  \/ Delete_150(t) \/ Delete_153(t)

NextTest ==
  \/ Test_134 \/ Test_136 \/ Test_153 \/ Test_155
  \/ \E t \in Workers : Test_145(t)
  \/ \E t \in Threads : TestStep(t)

SpecTest == InitTest /\ [][NextTest]_vars

\* ================================================================== claims
\* A write operation is between Lock() and Unlock().
WriterInside == \E t \in Threads : pc[t] \in WriteCS

IsPrefix(s, u) == Len(s) <= Len(u) /\ \A i \in 1..Len(s) : s[i] = u[i]

RemoveAt(s, i) == SubSeq(s, 1, i - 1) \o SubSeq(s, i + 1, Len(s))

\* Index of the first element of s that equals x (s contains x).
FirstIndex(s, x) == Min({i \in 1..Len(s) : s[i] = x})

\* C1: whenever every call of Insert, Append, Delete, DeleteHead and
\* DeleteTail made so far has returned, the length field equals the number
\* of nodes reachable from head by next-links.
C1_LengthCountsNodes ==
  ~WriterInside => length = Len(Chain(heap, head))

C1_Witness ==
  /\ ~WriterInside
  /\ length >= 2
  /\ heap[head].value = heap[heap[head].next].value
  /\ \E t \in Workers : pc[t] = "Length_ret" /\ ret[t].value < length

\* C2: in every state in which no write operation is inside its critical
\* section, head is nil iff tail is nil iff length is 0, and the length is
\* never negative: the list is Empty or NonEmpty.
C2_EmptyOrNonEmpty ==
  ~WriterInside =>
    \/ head = Nil /\ tail = Nil /\ length = 0
    \/ head # Nil /\ tail # Nil /\ length >= 1

\* the list held an element when Length read it and is empty now
C2_Witness ==
  /\ ~WriterInside
  /\ head = Nil
  /\ \E t \in Workers : pc[t] = "Length_ret" /\ ret[t].value >= 1

\* C3: after the calls made so far have returned, the chain from head has no
\* node twice, ends in nil after exactly length steps, and its last node is
\* the node tail points to, whose next-link is nil.
C3_ChainEndsAtTail ==
  ~WriterInside =>
    LET c == Chain(heap, head)
    IN  /\ ~Cyclic(heap, head)
        /\ Cardinality(Range(c)) = Len(c)
        /\ Len(c) = length
        /\ IF c = <<>> THEN tail = Nil
           ELSE tail = c[Len(c)] /\ heap[tail].next = Nil

C3_Witness ==
  /\ ~WriterInside
  /\ Len(Chain(heap, head)) >= 3
  /\ tail # Nil
  /\ heap[head].value # heap[tail].value

\* C4: in the concurrency test, under every interleaving, every Delete call
\* returns true, and once all goroutines are done the list holds exactly the
\* sentinel element: length 1, head and tail the one node that holds the
\* sentinel, its next-link nil, and listAssert reports no error.
C4_TestEndsWithSentinel ==
  /\ \A t \in Threads : pc[t] = "Delete_ret" => ret[t].ok
  /\ mainpc \in {"Test_155", "Test_done"} =>
       /\ length = 1
       /\ head # Nil
       /\ head = tail
       /\ heap[head] = [value |-> Sentinel, next |-> Nil]
       /\ Traversal = listData
       /\ listAssert(listData)
  /\ mainpc = "Test_done" => ~failed

C4_Witness == mainpc = "Test_done" /\ \A t \in Workers : iter[t] = Iterations

\* C5: ForEach calls the visitor exactly once per element, in head-to-tail
\* order: what it has visited so far is a prefix of the traversal, and when
\* it returns it has visited the whole traversal.
C5_ForEachVisitsOnce ==
  \A t \in Threads :
    op[t].name = "ForEach" /\ pc[t] \in ReadCS =>
      /\ IsPrefix(visited[t], pre[t].vals)
      /\ pc[t] = "ForEach_210" => visited[t] = pre[t].vals

\* C6: under a fair scheduler and a fair lock, every call of an operation of
\* the list eventually returns.
C6_EveryCallReturns ==
  \A t \in Workers : (pc[t] # "idle") ~> (pc[t] = "idle")

\* C7: Delete(x) on a list that contains x returns true, removes the first
\* node whose value equals x and no other, keeps the other nodes in their
\* order, and decrements length by exactly 1.
C7_DeleteRemovesFirst ==
  \A t \in Threads :
    (pc[t] = "Delete_ret" /\ op[t].value \in Range(pre[t].vals)) =>
      LET i == FirstIndex(pre[t].vals, op[t].value)
      IN  /\ ret[t].ok
          /\ Chain(heap, head) = RemoveAt(pre[t].nodes, i)
          /\ Traversal = RemoveAt(pre[t].vals, i)
          /\ length = pre[t].length - 1

\* the first of two equal values is deleted from behind another element
C7_Witness ==
  \E t \in Workers :
    /\ pc[t] = "Delete_ret"
    /\ ret[t].ok
    /\ op[t].value = 0
    /\ pre[t].vals = <<1, 0, 0>>

\* C8: Delete(x) on a list that does not contain x, the empty list included,
\* returns false and leaves head, tail, length and the traversal unchanged.
C8_DeleteAbsentIsNoOp ==
  \A t \in Threads :
    (pc[t] = "Delete_ret" /\ op[t].value \notin Range(pre[t].vals)) =>
      /\ ~ret[t].ok
      /\ head = pre[t].head
      /\ tail = pre[t].tail
      /\ length = pre[t].length
      /\ Chain(heap, head) = pre[t].nodes
      /\ Traversal = pre[t].vals

C8_Witness ==
  \E t \in Workers :
    /\ pc[t] = "Delete_ret"
    /\ ~ret[t].ok
    /\ op[t].value = 0
    /\ pre[t].vals = <<1, 1>>

\* C9: Insert(v) on a valid list with traversal S returns no error and leaves
\* traversal v followed by S, the old nodes behind the new one, and length
\* increased by 1.
C9_InsertPrepends ==
  \A t \in Threads :
    pc[t] = "Insert_86" =>
      /\ ret[t].has /\ ret[t].err = ""
      /\ Traversal = <<op[t].value>> \o pre[t].vals
      /\ Chain(heap, head) = <<locals[t].listNode>> \o pre[t].nodes
      /\ length = pre[t].length + 1

C9_Witness ==
  \E t \in Workers :
    /\ pc[t] = "Insert_86"
    /\ op[t].value = 0
    /\ pre[t].vals = <<1, 0>>

\* C10: Append(v) on a valid list with traversal S returns no error and
\* leaves traversal S followed by v, the new node behind the old ones, and
\* length increased by 1, whatever insertions and deletions came before.
C10_AppendAddsLast ==
  \A t \in Threads :
    pc[t] = "Append_105" =>
      /\ ret[t].has /\ ret[t].err = ""
      /\ Traversal = pre[t].vals \o <<op[t].value>>
      /\ Chain(heap, head) = pre[t].nodes \o <<locals[t].listNode>>
      /\ length = pre[t].length + 1

C10_Witness ==
  \E t \in Workers :
    /\ pc[t] = "Append_105"
    /\ op[t].value = 1
    /\ pre[t].vals = <<0, 1>>

\* C11: DeleteHead() on a list that is not empty, with traversal v1, ..., vn,
\* returns (v1, true) and leaves v2, ..., vn: the nodes behind the old head,
\* in their order, with length n-1.
C11_DeleteHeadRemovesFirst ==
  \A t \in Threads :
    (pc[t] = "DeleteHead_ret" /\ pre[t].vals # <<>>) =>
      /\ ret[t].ok
      /\ ret[t].value = pre[t].vals[1]
      /\ Traversal = Tail(pre[t].vals)
      /\ Chain(heap, head) = Tail(pre[t].nodes)
      /\ length = pre[t].length - 1

C11_Witness ==
  \E t \in Workers :
    /\ pc[t] = "DeleteHead_ret"
    /\ ret[t].ok
    /\ pre[t].vals = <<1, 0, 1>>

Front(s) == SubSeq(s, 1, Len(s) - 1)

\* C12: DeleteTail() on a list that is not empty, with traversal v1, ..., vn,
\* returns (vn, true) and leaves v1, ..., vn-1 with length n-1: the node
\* before the old tail is the new tail and its next-link is nil, also when
\* other elements equal vn.
C12_DeleteTailRemovesLast ==
  \A t \in Threads :
    (pc[t] = "DeleteTail_ret" /\ pre[t].vals # <<>>) =>
      LET n == Len(pre[t].nodes)
      IN  /\ ret[t].ok
          /\ ret[t].value = pre[t].vals[n]
          /\ Traversal = Front(pre[t].vals)
          /\ Chain(heap, head) = Front(pre[t].nodes)
          /\ length = pre[t].length - 1
          /\ IF n = 1 THEN head = Nil /\ tail = Nil
             ELSE tail = pre[t].nodes[n - 1] /\ heap[tail].next = Nil

\* the value of the removed tail occurs once more in front of it
C12_Witness ==
  \E t \in Workers :
    /\ pc[t] = "DeleteTail_ret"
    /\ ret[t].ok
    /\ pre[t].vals = <<1, 0, 1>>

\* C13: DeleteHead() and DeleteTail() on an empty list return (zero value,
\* false) and leave the list as it was: head and tail nil, length 0; the
\* length is never negative.
C13_DeleteOnEmptyIsNoOp ==
  /\ length >= 0
  /\ \A t \in Threads :
       (pc[t] \in {"DeleteHead_ret", "DeleteTail_ret"} /\ pre[t].nodes = <<>>)
         => /\ ~ret[t].ok
            /\ ret[t].value = ZeroT
            /\ head = Nil
            /\ tail = Nil
            /\ length = 0
            /\ Chain(heap, head) = <<>>

\* the list was not empty when Length read it; DeleteTail finds it empty
C13_Witness ==
  \E t, u \in Workers :
    /\ pc[t] = "DeleteTail_ret"
    /\ ~ret[t].ok
    /\ pre[t].nodes = <<>>
    /\ pc[u] = "Length_ret"
    /\ ret[u].value >= 1

\* C14: Find(x) returns the first node, in head-to-tail order, whose value
\* equals x, or nil when no element equals x (the empty list included), and
\* changes nothing: head, tail, length and the chain with its next-links are
\* what they were when Find acquired the lock.
C14_FindReturnsFirst ==
  \A t \in Threads :
    pc[t] = "Find_133" =>
      /\ ret[t].node =
           IF op[t].value \in Range(pre[t].vals)
             THEN pre[t].nodes[FirstIndex(pre[t].vals, op[t].value)]
             ELSE Nil
      /\ Snapshot = pre[t]
      /\ \A i \in 1..Len(pre[t].nodes) :
           heap[pre[t].nodes[i]].next =
             IF i < Len(pre[t].nodes) THEN pre[t].nodes[i + 1] ELSE Nil

\* the value occurs twice, behind another element
C14_Witness ==
  \E t \in Workers :
    /\ pc[t] = "Find_133"
    /\ op[t].value = 0
    /\ pre[t].vals = <<1, 0, 0>>
    /\ ret[t].node = pre[t].nodes[2]

\* C15: Insert and Append called through a nil handle return the error
\* "list is nil" without a panic and without creating a node or touching a
\* list; called on a valid list they return a nil error.
C15_NilHandleIsAnError ==
  [][\A t \in Threads :
       /\ (pc[t] = "idle" /\ op'[t].h = "nil"
             /\ op'[t].name \in {"Insert", "Append"})
            => /\ ~crashed'
               /\ pc'[t] \in {"Insert_76", "Append_92"}
               /\ ret'[t].has
               /\ ret'[t].err = "list is nil"
               /\ UNCHANGED <<head, tail, length, heap, mux>>
       /\ (pc[t] \in {"Insert_85", "Append_104"}
             /\ pc'[t] \in {"Insert_86", "Append_105"})
            => /\ op[t].h = "list"
               /\ ret'[t].has
               /\ ret'[t].err = ""]_vars

\* one goroutine is returning the error of Insert, another that of Append,
\* while the list holds elements
C15_Witness ==
  \E t, u \in Workers :
    /\ pc[t] = "Insert_76"
    /\ ret[t].err = "list is nil"
    /\ pc[u] = "Append_92"
    /\ ret[u].err = "list is nil"
    /\ length >= 1

\* C16: a nil handle behaves like an empty list for every operation other
\* than Insert and Append: the call does not panic and returns the result of
\* the empty list (Find nil, Delete false, DeleteHead and DeleteTail
\* (zero value, false), Length 0, String without error).
C16_NilHandleIsEmptyList ==
  \A t \in Threads :
    (op[t].h = "nil" /\ op[t].name \notin {"Insert", "Append"}) =>
      /\ ~crashed
      /\ ret[t].has
      /\ ~ret[t].ok
      /\ ret[t].node = Nil
      /\ ret[t].value = ZeroT
      /\ ret[t].err = ""

\* Goroutines between Lock() and Unlock(), and between RLock() and RUnlock().
Writers == {t \in Threads : pc[t] \in WriteCS}
Readers == {t \in Threads : pc[t] \in ReadCS}

\* C17: at no time are two of Insert, Append, Delete, DeleteHead, DeleteTail
\* inside their critical sections together, and at no time is one of them
\* inside while Find, ForEach or String is inside its own.
C17_MutualExclusion ==
  /\ Cardinality(Writers) <= 1
  /\ Writers # {} => Readers = {}
  /\ mux.w = (Writers # {})
  /\ mux.r = Cardinality(Readers)

\* two read operations are inside their critical sections together
C17_Witness ==
  \E t, u \in Workers :
    /\ t # u
    /\ pc[t] = "Find_132"
    /\ pc[u] \in {"ForEach_207", "String_219"}
    /\ length >= 1

\* C18: Length is serialized against the mutators: it never reads the length
\* field while Insert, Append, Delete, DeleteHead or DeleteTail is inside its
\* critical section.
C18_LengthIsSerialized ==
  [][\A t \in Threads :
       (pc[t] = "idle" /\ pc'[t] = "Length_ret") => ~WriterInside]_vars

\* C19: deleting the only element of a one-element list, by Delete of its
\* value, by DeleteHead or by DeleteTail, leaves head nil, tail nil and
\* length 0; an Insert or Append into the empty list makes its new node both
\* head and tail.
C19_SingleElementCollapse ==
  \A t \in Threads :
    /\ ( /\ Len(pre[t].nodes) = 1
         /\ \/ pc[t] \in {"DeleteHead_ret", "DeleteTail_ret"}
            \/ pc[t] = "Delete_ret" /\ op[t].value = pre[t].vals[1] )
       => /\ ret[t].ok
          /\ head = Nil
          /\ tail = Nil
          /\ length = 0
    /\ (pc[t] \in {"Insert_86", "Append_105"} /\ pre[t].nodes = <<>>)
       => /\ head # Nil
          /\ head = locals[t].listNode
          /\ tail = locals[t].listNode
          /\ heap[head].next = Nil
          /\ length = 1

\* the list held one element when Length read it, was emptied, and Append
\* has now put a node into the empty list
C19_Witness ==
  \E t, u \in Workers :
    /\ pc[t] = "Append_105"
    /\ pre[t].nodes = <<>>
    /\ pc[u] = "Length_ret"
    /\ ret[u].value = 1

\* The reference list: a sequence of values, and what each write operation
\* makes of it and returns.
RefApply(name, v, s) ==
  CASE name = "Insert" ->
         [list |-> <<v>> \o s, ok |-> FALSE, value |-> ZeroT]
    [] name = "Append" ->
         [list |-> s \o <<v>>, ok |-> FALSE, value |-> ZeroT]
    [] name = "Delete" ->
         IF v \in Range(s)
           THEN [list |-> RemoveAt(s, FirstIndex(s, v)), ok |-> TRUE,
                 value |-> ZeroT]
           ELSE [list |-> s, ok |-> FALSE, value |-> ZeroT]
    [] name = "DeleteHead" ->
         IF s = <<>> THEN [list |-> s, ok |-> FALSE, value |-> ZeroT]
         ELSE [list |-> Tail(s), ok |-> TRUE, value |-> Head(s)]
    [] name = "DeleteTail" ->
         IF s = <<>> THEN [list |-> s, ok |-> FALSE, value |-> ZeroT]
         ELSE [list |-> Front(s), ok |-> TRUE, value |-> s[Len(s)]]

\* C20: the write operations are linearizable in the order in which they
\* acquire the write lock.  The reference list is the traversal: a call that
\* acquires the lock finds it, the call returns what the reference operation
\* returns for it and leaves the traversal and length the reference
\* operation produces, and between two critical sections the traversal and
\* the length do not change.
C20_Linearizable ==
  [][/\ \A t \in Threads :
          (pc[t] \in WriteEntry /\ pc'[t] \in WriteCS)
            => /\ ~WriterInside
               /\ pre'[t].vals = Traversal
               /\ Traversal' = Traversal
               /\ length' = length
     /\ \A t \in Threads :
          (pc[t] \in WriteRet /\ pc'[t] = "idle" /\ ~crashed')
            => LET r == RefApply(op[t].name, op[t].value, pre[t].vals)
               IN  /\ ret[t].has
                   /\ ret[t].err = ""
                   /\ ret[t].ok = r.ok
                   /\ ret[t].value = r.value
                   /\ Traversal' = r.list
                   /\ length' = Len(r.list)
     /\ (~WriterInside /\ ~WriterInside' /\ ~crashed')
          => /\ Traversal' = Traversal
             /\ length' = length]_vars

\* a Delete that removed one of three elements is about to release the lock
\* that a DeleteTail and nobody else is waiting for
C20_Witness ==
  \E t, u \in Workers :
    /\ pc[t] = "Delete_ret"
    /\ ret[t].ok
    /\ Len(pre[t].vals) = 3
    /\ pc[u] = "DeleteTail_176"

====
